---- MODULE Spec2Model ----
(***************************************************************************)
(* Model of the automation service of desktop-app/automation-service:      *)
(*   main.py  - the request surface (run_task, start_application,          *)
(*              get_status, confirm_submission) and the lifecycle           *)
(*              coroutine run_application_automation of /api/apply jobs;    *)
(*   agent.py - UniversityApplicationAgent (apply_to_university,            *)
(*              submit_application, close) and run_automation_task, the     *)
(*              lifecycle coroutine of /run-task jobs.                      *)
(* Every coroutine is a process with a program counter; one action is one   *)
(* synchronous segment of a coroutine between two awaits, or one request    *)
(* handler.  The external engine (browser-use Agent/Browser, the LLM        *)
(* client, Chrome, the debugging endpoint) is the environment: each call    *)
(* into it returns or raises, nondeterministically.                         *)
(***************************************************************************)
EXTENDS Integers, Sequences, FiniteSets, TLC

(***************************************************************************)
(* Bounds of the model.                                                     *)
(***************************************************************************)
\* number of successful job creations explored
MaxJobs == 1

(***************************************************************************)
(* Program constants.                                                       *)
(***************************************************************************)
\* agent.py:513  for attempt in range(20)
AttachAttempts == 20

\* task ids: uuid4 values are opaque and fresh, so the k-th id issued is
\* named k; a request can name any of them, or 0, which is never issued
TaskIds == 1..MaxJobs
RequestIds == 0..MaxJobs

\* absent dict key / Python None
None == "none"
\* Literal["submit", "cancel"] of confirm_submission
ConfirmActions == {"submit", "cancel"}
\* values a client can send as ApplicationRequest.mode
RequestModes == {"semi", "full", "auto"}
\* the abstract credentials dict built by _build_task_prompt
Creds == "credentials"
\* what one poll of /json/version can produce (agent.py:515-532)
PollOutcomes == {"refused", "ok_url", "ok_nourl", "status_502", "status_other", "exception"}

VARIABLES
    browserUseAvailable, \* agent.py BROWSER_USE_AVAILABLE (set once at import)
    envApiKey,           \* bool(os.getenv("GEMINI_API_KEY"))
    active_tasks,        \* main.py active_tasks: task_id -> dict
    co,                  \* per job: the lifecycle coroutine's locals and its agent object
    decisions,           \* history: per job, the actions confirm_submission accepted
                         \* and how many calls it accepted: 0, 1, or 2 for two or more
    submitStarted,       \* history: per job, submit_agent.run() has been called
    response,            \* the response of the latest request handler
    websocket_connections, \* main.py websocket_connections: task_id -> WebSocket
    ws,                  \* per socket: its websocket_progress handler and its client
    sending,             \* per job suspended in update_progress: the socket whose
                         \* send_json it awaits
    page,                \* the response handed to check_page_accessibility
    verdict              \* what check_page_accessibility returned for page

vars == <<browserUseAvailable, envApiKey, active_tasks, co, decisions, submitStarted, response,
          websocket_connections, ws, sending, page, verdict>>
envVars == <<browserUseAvailable, envApiKey>>
busVars == <<websocket_connections, ws, sending>>
detVars == <<page, verdict>>

Ids == DOMAIN active_tasks

\* str(uuid.uuid4()) (main.py:137, main.py:177)
FreshId == Cardinality(Ids) + 1

\* status code and, for an HTTPException, its detail.  A handler of main.py
\* has no await: it runs to its return (or raise) in one step, and the
\* response leaves before any other handler or coroutine runs.  response
\* holds it for that one step; no handler or coroutine reads it.
\* the event loop as a wait loop that does not await would leave it
\* (time.sleep in place of main.py:316): no handler runs while a job waits
Idle_HeldByWaiter == response = [code |-> 0, detail |-> "none"] /\ \A j \in DOMAIN co : co[j].pc # "a_wait"

NoResponse == [code |-> 0, detail |-> None]
Idle == response = NoResponse
Resp(code, detail) == [code |-> code, detail |-> detail]

(***************************************************************************)
(* update_progress (main.py:270-273, agent.py:395-401): the three writes    *)
(* to the registry entry.                                                   *)
(***************************************************************************)
UpdateProgress(t, status, progress, message) ==
    [t EXCEPT !.status = status,
              !.progress = progress,
              !.messages = Append(@, message)]

\* main.py:139-162 and 182-202: there is room for one more job within a
\* bound of n jobs
Room(n) == Cardinality(Ids) < n

\* start_application registers a job for this request (main.py:85, 180-182)
Accepts(mode, req_key) == mode \in {"semi", "full"} /\ (req_key \/ envApiKey)

\* the coroutine's locals at creation
NewCoroutine(kind, mode, custom_prompt) ==
    [pc |-> IF kind = "task" THEN "t_start" ELSE "a_start",
     kind |-> kind,
     mode |-> mode,
     custom_prompt |-> custom_prompt,
     self_browser |-> FALSE,      \* UniversityApplicationAgent.browser is set
     self_agent |-> FALSE,        \* UniversityApplicationAgent.agent is set
     self_credentials |-> None,   \* UniversityApplicationAgent.account_credentials
     result |-> [success |-> FALSE, ready_for_review |-> FALSE, account_created |-> None],
     attempt |-> 0,               \* polls of the debugging endpoint made
     last_error |-> None,
     polls |-> "all refused",     \* history: what the polls made so far answered
     cdp_url |-> None,
     debug_port |-> 0,            \* the port find_free_port returned; 0: not named
     proc |-> "none",             \* browser_process: none / live / terminated
     session |-> "none",          \* the engine's browser session: none / live / stopped
     checked |-> FALSE]           \* history: check_page_accessibility was called for the job

\* the sockets a client can open, named in the order they connect
Sockets == {"w1", "w2"}

\* a socket no client has opened yet.  seen and missed are history: the
\* client has received the latest write of its task (as an event or in a
\* snapshot), and a write made after it subscribed was replaced by the next
\* before the client received it
NoSocket == [state |-> "idle", task_id |-> 0, seen |-> TRUE, missed |-> FALSE]

\* no response has been handed to the detector
NoPage == [status_code |-> 0, headers |-> <<>>, html_content |-> <<>>]

\* no call of check_page_accessibility has returned yet
NoVerdict == [is_accessible |-> FALSE, reason |-> <<>>]

Register(id, entry, coroutine) ==
    /\ active_tasks' = active_tasks @@ (id :> entry)
    /\ co' = co @@ (id :> coroutine)
    /\ decisions' = decisions @@ (id :> [accepted |-> {}, count |-> 0])
    /\ submitStarted' = submitStarted @@ (id :> FALSE)

Init ==
    /\ browserUseAvailable \in BOOLEAN
    /\ envApiKey \in BOOLEAN
    /\ active_tasks = <<>>
    /\ co = <<>>
    /\ decisions = <<>>
    /\ submitStarted = <<>>
    /\ response = NoResponse
    /\ websocket_connections = <<>>
    /\ ws = [s \in Sockets |-> NoSocket]
    /\ sending = <<>>
    /\ page = NoPage
    /\ verdict = NoVerdict

(***************************************************************************)
(* Request handlers of main.py.                                             *)
(***************************************************************************)
\* POST /run-task (main.py:125-171)
run_task(id) ==
    /\ Idle
    /\ id = FreshId
    /\ Register(id,
                [status |-> "started", progress |-> 0,
                 messages |-> <<"Task queued for execution">>,
                 account_credentials |-> None, user_action |-> None],
                NewCoroutine("task", None, FALSE))
    /\ response' = Resp(200, "ok")
    /\ UNCHANGED <<envVars, busVars, detVars>>

\* POST /api/apply (main.py:174-204); a mode outside Literal["semi", "full"]
\* is rejected by the request model (main.py:85) before the handler runs
start_application(id, mode, req_key, custom_prompt) ==
    /\ Idle
    /\ id = FreshId
    /\ IF mode \notin {"semi", "full"}
       THEN /\ response' = Resp(422, "validation error")
            /\ UNCHANGED <<active_tasks, co, decisions, submitStarted>>
       ELSE IF ~(req_key \/ envApiKey)
       THEN /\ response' = Resp(400, "GEMINI_API_KEY not configured")
            /\ UNCHANGED <<active_tasks, co, decisions, submitStarted>>
       ELSE /\ Register(id,
                        [status |-> "queued", progress |-> 0, messages |-> <<>>,
                         account_credentials |-> None, user_action |-> None],
                        NewCoroutine("apply", mode, custom_prompt))
            /\ response' = Resp(200, "ok")
    /\ UNCHANGED <<envVars, busVars, detVars>>

\* get_status without the membership test of main.py:210-211
get_status_NoMembershipTest(id) ==
    /\ Idle
    /\ response' = Resp(200, "ok")
    /\ UNCHANGED <<envVars, active_tasks, co, decisions, submitStarted, busVars, detVars>>

\* GET /api/status/{task_id} (main.py:207-221)
get_status(id) ==
    /\ Idle
    /\ response' = IF id \notin Ids THEN Resp(404, "Task not found") ELSE Resp(200, "ok")
    /\ UNCHANGED <<envVars, active_tasks, co, decisions, submitStarted, busVars, detVars>>

\* confirm_submission without the state test of main.py:231-232
confirm_submission_NoStateTest(id, action) ==
    /\ Idle
    /\ IF id \notin Ids
       THEN /\ response' = Resp(404, "Task not found")
            /\ UNCHANGED <<active_tasks, decisions>>
       ELSE /\ active_tasks' = [active_tasks EXCEPT ![id].user_action = action]
            /\ decisions' = [decisions EXCEPT ![id] = [accepted |-> @.accepted \cup {action},
                                                       count |-> IF @.count = 0 THEN 1 ELSE 2]]
            /\ response' = Resp(200, "ok")
    /\ UNCHANGED <<envVars, co, submitStarted, busVars, detVars>>

\* POST /api/confirm/{task_id} (main.py:224-235)
confirm_submission(id, action) ==
    /\ Idle
    /\ IF id \notin Ids
       THEN /\ response' = Resp(404, "Task not found")
            /\ UNCHANGED <<active_tasks, decisions>>
       ELSE IF active_tasks[id].status # "awaiting_confirmation"
       THEN /\ response' = Resp(400, "Task not awaiting confirmation")
            /\ UNCHANGED <<active_tasks, decisions>>
       ELSE /\ active_tasks' = [active_tasks EXCEPT ![id].user_action = action]
            /\ decisions' = [decisions EXCEPT ![id] = [accepted |-> @.accepted \cup {action},
                                                       count |-> IF @.count = 0 THEN 1 ELSE 2]]
            /\ response' = Resp(200, "ok")
    /\ UNCHANGED <<envVars, co, submitStarted, busVars, detVars>>

(***************************************************************************)
(* Lifecycle of an /api/apply job: run_application_automation               *)
(* (main.py:266-330) with the UniversityApplicationAgent it drives          *)
(* (agent.py:106-369).  Every action ends at an await: an update_progress   *)
(* (whose websocket send may suspend) or a call into the engine.            *)
(***************************************************************************)
\* the handler's return (or its HTTPException) reaches the client
ReturnResponse ==
    /\ ~Idle
    /\ response' = NoResponse
    /\ UNCHANGED <<envVars, active_tasks, co, decisions, submitStarted, busVars, detVars>>

\* coroutine j is to run from label: it is there and is not suspended in
\* the send of update_progress (main.py:277, agent.py:404)
At(j, label) == Idle /\ j \in Ids /\ co[j].pc = label /\ j \notin DOMAIN sending

\* main.py:275-286, agent.py:403-413: the second half of update_progress.
\* The event is sent to the socket registered for the task, if there is one,
\* and the coroutine awaits that send.
Publish(j) ==
    /\ sending' = IF j \in DOMAIN websocket_connections
                  THEN sending @@ (j :> websocket_connections[j])
                  ELSE sending
    /\ ws' = [s \in Sockets |->
                IF ws[s].task_id = j /\ ws[s].state = "open"
                THEN [ws[s] EXCEPT !.seen = FALSE, !.missed = @ \/ ~ws[s].seen]
                ELSE ws[s]]
    /\ UNCHANGED websocket_connections

\* update_progress writing through a task dict shared by the coroutines
\* instead of the one looked up at main.py:268: the entry written is the
\* one registered last
SetJob_SharedTask(j, entry, coroutine) ==
    /\ active_tasks' = [active_tasks EXCEPT ![Cardinality(Ids)] = entry]
    /\ co' = [co EXCEPT ![j] = coroutine]
    /\ Publish(j)

\* one call of update_progress with what the coroutine does before it
SetJob(j, entry, coroutine) ==
    /\ active_tasks' = [active_tasks EXCEPT ![j] = entry]
    /\ co' = [co EXCEPT ![j] = coroutine]
    /\ Publish(j)

\* the dict apply_to_university returns on its two failure paths
\* (agent.py:158-162 and 212-216)
FailureResult(credentials) ==
    [success |-> FALSE, ready_for_review |-> FALSE, account_created |-> credentials]

\* _parse_agent_history without the mode branch of agent.py:202-203: the
\* result never says ready_for_review
ParsedResult_NoReviewFlag(mode, credentials) ==
    [success |-> TRUE, ready_for_review |-> FALSE, account_created |-> credentials]

\* _parse_agent_history (agent.py:318-338) and the mode branch (agent.py:202-203)
ParsedResult(mode, credentials) ==
    [success |-> TRUE, ready_for_review |-> (mode = "semi"), account_created |-> credentials]

\* the test of main.py:311 without the mode: parks whenever the run succeeded
ShouldAwaitConfirmation_IgnoresMode(mode, result) ==
    result.success

\* main.py:311  request.mode == "semi" and result.get("ready_for_review")
ShouldAwaitConfirmation(mode, result) ==
    mode = "semi" /\ result.ready_for_review

\* the test of main.py:318 taking any decision for a submit
IsSubmit_AnyDecision(action) == action # None

\* main.py:318  task["user_action"] == "submit"
IsSubmit(action) == action = "submit"

\* main.py:308-324, up to the next update_progress: what run_application_automation
\* does with the result of apply_to_university
AfterApply(j, result) ==
    LET stored == IF result.account_created # None
                  THEN [active_tasks[j] EXCEPT !.account_credentials = result.account_created]
                  ELSE active_tasks[j]
    IN  IF ShouldAwaitConfirmation(co[j].mode, result)
        THEN SetJob(j, UpdateProgress(stored, "awaiting_confirmation", 90, "Application filled. Awaiting teacher review..."),
                    [co[j] EXCEPT !.pc = "a_wait", !.result = result])
        ELSE SetJob(j, UpdateProgress(stored, "completed", 100, "result message"),
                    [co[j] EXCEPT !.pc = "a_close", !.result = result])

\* the except handler of apply_to_university up to its await (agent.py:210-211)
ApplyFails(j, coroutine) ==
    SetJob(j, UpdateProgress(active_tasks[j], "error", 0, "Application failed"),
           [coroutine EXCEPT !.pc = "a_failed"])

lifecycleFrame == <<envVars, decisions, submitStarted, response, detVars>>

\* main.py:289
ApplyStarting(j) ==
    /\ At(j, "a_start")
    /\ SetJob(j, UpdateProgress(active_tasks[j], "starting", 5, "Initializing browser automation..."),
              [co[j] EXCEPT !.pc = "a_created"])
    /\ UNCHANGED lifecycleFrame

\* main.py:292-297: the agent object is built (api_key is set, so __init__
\* does not raise) and "searching" is written
ApplyCreateAgent(j) ==
    /\ At(j, "a_created")
    /\ SetJob(j, UpdateProgress(active_tasks[j], "searching", 10, "Searching for application portal..."),
              [co[j] EXCEPT !.pc = "a_apply"])
    /\ UNCHANGED lifecycleFrame

\* agent.py:157-162 then main.py:308-324: the library is missing
ApplyEngineUnavailable(j) ==
    /\ At(j, "a_apply")
    /\ ~browserUseAvailable
    /\ AfterApply(j, FailureResult(None))
    /\ UNCHANGED lifecycleFrame

\* agent.py:164-172
ApplyInitLLM(j) ==
    /\ At(j, "a_apply")
    /\ browserUseAvailable
    /\ SetJob(j, UpdateProgress(active_tasks[j], "initializing", 15, "Starting browser (visible mode)..."),
              [co[j] EXCEPT !.pc = "a_browser"])
    /\ UNCHANGED lifecycleFrame

\* agent.py:166-170 raises
ApplyInitLLMFails(j) ==
    /\ At(j, "a_apply")
    /\ browserUseAvailable
    /\ ApplyFails(j, co[j])
    /\ UNCHANGED lifecycleFrame

\* agent.py:175-184: Browser(...), the prompt (which sets account_credentials
\* when no custom prompt is given, agent.py:255-259), "searching"
ApplyCreateBrowser(j) ==
    /\ At(j, "a_browser")
    /\ SetJob(j, UpdateProgress(active_tasks[j], "searching", 20, "Searching for application portal..."),
              [co[j] EXCEPT !.pc = "a_agent",
                            !.self_browser = TRUE,
                            !.self_credentials = IF co[j].custom_prompt THEN None ELSE Creds])
    /\ UNCHANGED lifecycleFrame

\* agent.py:175-176 raises
ApplyCreateBrowserFails(j) ==
    /\ At(j, "a_browser")
    /\ ApplyFails(j, co[j])
    /\ UNCHANGED lifecycleFrame

\* agent.py:187-195: Agent(...) and the call of agent.run(), which launches
\* the engine's browser
ApplyRunEngine(j) ==
    /\ At(j, "a_agent")
    /\ co' = [co EXCEPT ![j].pc = "a_run", ![j].self_agent = TRUE, ![j].session = "live"]
    /\ UNCHANGED <<active_tasks, busVars, lifecycleFrame>>

\* agent.py:187-192 raises
ApplyCreateEngineFails(j) ==
    /\ At(j, "a_agent")
    /\ ApplyFails(j, co[j])
    /\ UNCHANGED lifecycleFrame

\* agent.py:195-197: agent.run() returned
ApplyRunReturns(j) ==
    /\ At(j, "a_run")
    /\ SetJob(j, UpdateProgress(active_tasks[j], "processing", 80, "Processing application results..."),
              [co[j] EXCEPT !.pc = "a_parse"])
    /\ UNCHANGED lifecycleFrame

\* agent.py:195 raises
ApplyRunFails(j) ==
    /\ At(j, "a_run")
    /\ ApplyFails(j, co[j])
    /\ UNCHANGED lifecycleFrame

\* agent.py:200-206
ApplyParse(j) ==
    /\ At(j, "a_parse")
    /\ LET result == ParsedResult(co[j].mode, co[j].self_credentials)
       IN  SetJob(j,
                  IF co[j].mode = "semi"
                  THEN UpdateProgress(active_tasks[j], "review", 90, "Application form filled. Ready for teacher review.")
                  ELSE UpdateProgress(active_tasks[j], "completed", 100, "Form filling completed (submission halted per protocol)."),
                  [co[j] EXCEPT !.pc = "a_result", !.result = result])
    /\ UNCHANGED lifecycleFrame

\* agent.py:208 then main.py:308-324
ApplyResult(j) ==
    /\ At(j, "a_result")
    /\ AfterApply(j, co[j].result)
    /\ UNCHANGED lifecycleFrame

\* agent.py:212-216 then main.py:308-324
ApplyFailedResult(j) ==
    /\ At(j, "a_failed")
    /\ AfterApply(j, FailureResult(co[j].self_credentials))
    /\ UNCHANGED lifecycleFrame

\* main.py:315-319 and agent.py:347-361: the wait loop sees a decision, it is
\* "submit", and submit_application calls submit_agent.run()
ApplyWaitSubmit(j) ==
    /\ At(j, "a_wait")
    /\ active_tasks[j].user_action # None
    /\ IsSubmit(active_tasks[j].user_action)
    /\ IF co[j].self_agent /\ co[j].self_browser
       THEN /\ co' = [co EXCEPT ![j].pc = "a_submit_run"]
            /\ submitStarted' = [submitStarted EXCEPT ![j] = TRUE]
            /\ UNCHANGED <<active_tasks, busVars>>
       ELSE /\ SetJob(j, UpdateProgress(active_tasks[j], "completed", 100, "Application submitted successfully!"),
                      [co[j] EXCEPT !.pc = "a_close"])
            /\ UNCHANGED submitStarted
    /\ UNCHANGED <<envVars, decisions, response, detVars>>

\* agent.py:350-360 raises before submit_agent.run() is called (agent.py:363-364)
ApplySubmitSetupFails(j) ==
    /\ At(j, "a_wait")
    /\ active_tasks[j].user_action # None
    /\ IsSubmit(active_tasks[j].user_action)
    /\ co[j].self_agent /\ co[j].self_browser
    /\ SetJob(j, UpdateProgress(active_tasks[j], "error", 95, "Submit failed"),
              [co[j] EXCEPT !.pc = "a_submitted"])
    /\ UNCHANGED lifecycleFrame

\* main.py:322 writing progress 0, as the error write of main.py:330 does
ApplyWaitCancel_ResetsProgress(j) ==
    /\ At(j, "a_wait")
    /\ active_tasks[j].user_action # None
    /\ ~IsSubmit(active_tasks[j].user_action)
    /\ SetJob(j, UpdateProgress(active_tasks[j], "cancelled", 0, "Application cancelled by teacher."),
              [co[j] EXCEPT !.pc = "a_close"])
    /\ UNCHANGED lifecycleFrame

\* main.py:318-322 without the wait loop of main.py:315-316
ApplyWaitCancel_NoWait(j) ==
    /\ At(j, "a_wait")
    /\ ~IsSubmit(active_tasks[j].user_action)
    /\ SetJob(j, UpdateProgress(active_tasks[j], "cancelled", 100, "Application cancelled by teacher."),
              [co[j] EXCEPT !.pc = "a_close"])
    /\ UNCHANGED lifecycleFrame

\* main.py:315-322: the wait loop sees a decision and it is not "submit"
ApplyWaitCancel(j) ==
    /\ At(j, "a_wait")
    /\ active_tasks[j].user_action # None
    /\ ~IsSubmit(active_tasks[j].user_action)
    /\ SetJob(j, UpdateProgress(active_tasks[j], "cancelled", 100, "Application cancelled by teacher."),
              [co[j] EXCEPT !.pc = "a_close"])
    /\ UNCHANGED lifecycleFrame

\* agent.py:361-362
ApplySubmitRunReturns(j) ==
    /\ At(j, "a_submit_run")
    /\ SetJob(j, UpdateProgress(active_tasks[j], "submitted", 100, "Application submitted!"),
              [co[j] EXCEPT !.pc = "a_submitted"])
    /\ UNCHANGED lifecycleFrame

\* agent.py:361 raises (agent.py:363-364)
ApplySubmitRunFails(j) ==
    /\ At(j, "a_submit_run")
    /\ SetJob(j, UpdateProgress(active_tasks[j], "error", 95, "Submit failed"),
              [co[j] EXCEPT !.pc = "a_submitted"])
    /\ UNCHANGED lifecycleFrame

\* main.py:320
ApplyCompleted(j) ==
    /\ At(j, "a_submitted")
    /\ SetJob(j, UpdateProgress(active_tasks[j], "completed", 100, "Application submitted successfully!"),
              [co[j] EXCEPT !.pc = "a_close"])
    /\ UNCHANGED lifecycleFrame

\* main.py:326 with a close that also drops what main.py:309 stored
ApplyClose_DropsCredentials(j) ==
    /\ At(j, "a_close")
    /\ co' = [co EXCEPT ![j].pc = "done",
                        ![j].session = IF co[j].self_browser /\ @ = "live" THEN "stopped" ELSE @]
    /\ active_tasks' = [active_tasks EXCEPT ![j].account_credentials = None]
    /\ UNCHANGED <<busVars, lifecycleFrame>>

\* main.py:326 and agent.py:366-369: agent.close() returns
ApplyClose(j) ==
    /\ At(j, "a_close")
    /\ co' = [co EXCEPT ![j].pc = "done",
                        ![j].session = IF co[j].self_browser /\ @ = "live" THEN "stopped" ELSE @]
    /\ UNCHANGED <<active_tasks, busVars, lifecycleFrame>>

\* agent.py:369 raises: the handler of main.py:328-330
ApplyCloseFails(j) ==
    /\ At(j, "a_close")
    /\ co[j].self_browser
    /\ SetJob(j, UpdateProgress(active_tasks[j], "error", 0, "Error"),
              [co[j] EXCEPT !.pc = "done"])
    /\ UNCHANGED lifecycleFrame

run_application_automation(j) ==
    \/ ApplyStarting(j)
    \/ ApplyCreateAgent(j)
    \/ ApplyEngineUnavailable(j)
    \/ ApplyInitLLM(j)
    \/ ApplyInitLLMFails(j)
    \/ ApplyCreateBrowser(j)
    \/ ApplyCreateBrowserFails(j)
    \/ ApplyRunEngine(j)
    \/ ApplyCreateEngineFails(j)
    \/ ApplyRunReturns(j)
    \/ ApplyRunFails(j)
    \/ ApplyParse(j)
    \/ ApplyResult(j)
    \/ ApplyFailedResult(j)
    \/ ApplyWaitSubmit(j)
    \/ ApplySubmitSetupFails(j)
    \/ ApplyWaitCancel(j)
    \/ ApplySubmitRunReturns(j)
    \/ ApplySubmitRunFails(j)
    \/ ApplyCompleted(j)
    \/ ApplyClose(j)
    \/ ApplyCloseFails(j)


(***************************************************************************)
(* Lifecycle of a /run-task job: run_automation_task (agent.py:376-707).    *)
(***************************************************************************)
\* the handler of the outer try (agent.py:700-707)
TaskFails(j, coroutine) ==
    SetJob(j, UpdateProgress(active_tasks[j], "error", 0, "Task failed"),
           [coroutine EXCEPT !.pc = "done"])

\* agent.py:416
TaskStarting(j) ==
    /\ At(j, "t_start")
    /\ SetJob(j, UpdateProgress(active_tasks[j], "starting", 5, "Initializing browser automation..."),
              [co[j] EXCEPT !.pc = "t_check"])
    /\ UNCHANGED lifecycleFrame

\* agent.py:418-421
TaskEngineUnavailable(j) ==
    /\ At(j, "t_check")
    /\ ~browserUseAvailable
    /\ SetJob(j, UpdateProgress(active_tasks[j], "error", 0, "browser-use library not installed"),
              [co[j] EXCEPT !.pc = "done"])
    /\ UNCHANGED lifecycleFrame

\* agent.py:425-429
TaskNoApiKey(j) ==
    /\ At(j, "t_check")
    /\ browserUseAvailable
    /\ ~envApiKey
    /\ SetJob(j, UpdateProgress(active_tasks[j], "error", 0, "GEMINI_API_KEY not configured"),
              [co[j] EXCEPT !.pc = "done"])
    /\ UNCHANGED lifecycleFrame

\* agent.py:434-441
TaskInitLLM(j) ==
    /\ At(j, "t_check")
    /\ browserUseAvailable
    /\ envApiKey
    /\ SetJob(j, UpdateProgress(active_tasks[j], "initializing", 10, "Starting Chrome browser (visible mode)..."),
              [co[j] EXCEPT !.pc = "t_find"])
    /\ UNCHANGED lifecycleFrame

\* agent.py:434-438 raises
TaskInitLLMFails(j) ==
    /\ At(j, "t_check")
    /\ browserUseAvailable
    /\ envApiKey
    /\ TaskFails(j, co[j])
    /\ UNCHANGED lifecycleFrame

\* agent.py:445-461: none of chrome_paths exists
TaskChromeNotFound(j) ==
    /\ At(j, "t_find")
    /\ SetJob(j, UpdateProgress(active_tasks[j], "error", 0, "Google Chrome not found"),
              [co[j] EXCEPT !.pc = "done"])
    /\ UNCHANGED lifecycleFrame

\* the ports a browser is listening on: those of the jobs whose attach got
\* an answer from a process that is still there
PortsInUse ==
    {co[i].debug_port : i \in {k \in Ids : co[k].proc = "live" /\ co[k].cdp_url # None}}

\* the ports find_free_port has returned so far, named 1, 2, ... in the
\* order of their first use
PickedPorts == {co[i].debug_port : i \in Ids} \ {0}

\* find_free_port (agent.py:469-474): bind(('', 0)) lets the system pick any
\* port nothing is bound to, and the socket is closed on return, so the
\* port is free again.  The result is a port picked before that no browser
\* listens on, or a new one.
find_free_port == (PickedPorts \cup {Cardinality(PickedPorts) + 1}) \ PortsInUse

\* agent.py:475  user_data_dir is named after the port
UserDataDir(debug_port) == <<"uniconsulting_browser_", debug_port>>

\* agent.py:445-477: Chrome found, find_free_port returned port
ChromeFound(j, port) ==
    /\ At(j, "t_find")
    /\ SetJob(j, UpdateProgress(active_tasks[j], "initializing", 15, "Launching Chrome on port..."),
              [co[j] EXCEPT !.pc = "t_launch", !.debug_port = port])
    /\ UNCHANGED lifecycleFrame

\* agent.py:445-477: Chrome found, a free port picked.  The port is not
\* named: nothing in the lifecycle but the launch and the polls reads it, and
\* the jobs' steps are the same whatever it is.
TaskChromeFound(j) == ChromeFound(j, 0)

\* agent.py:445-477 with the port named, for the jobs' ports to be compared
TaskChromeFoundOnPort(j) == \E port \in find_free_port : ChromeFound(j, port)

\* agent.py:493-514: Popen succeeds, the attach loop starts at its first sleep
TaskLaunch(j) ==
    /\ At(j, "t_launch")
    /\ co' = [co EXCEPT ![j].pc = "t_attach", ![j].proc = "live"]
    /\ UNCHANGED <<active_tasks, busVars, lifecycleFrame>>

\* agent.py:500-503
TaskLaunchFails(j) ==
    /\ At(j, "t_launch")
    /\ SetJob(j, UpdateProgress(active_tasks[j], "error", 0, "Failed to launch Chrome"),
              [co[j] EXCEPT !.pc = "done"])
    /\ UNCHANGED lifecycleFrame

\* agent.py:525-532: last_error after a poll that did not get a 200
LastErrorAfter(outcome, last_error) ==
    CASE outcome = "status_502" -> "502 Bad Gateway"
      [] outcome = "refused"    -> "Connection refused"
      [] outcome = "exception"  -> "exception text"
      [] OTHER                  -> last_error

\* history of the polls of one attach loop, as far as the properties need
\* it, after poll number made: every poll so far was refused; the whole
\* budget of polls was refused; every poll was refused and then one
\* returned a control URL; anything else
PollsAfter(polls, outcome, made) ==
    CASE polls = "all refused" /\ outcome = "refused" ->
             IF made = AttachAttempts THEN "budget refused" ELSE "all refused"
      [] polls = "all refused" /\ outcome = "ok_url"  -> "refused then url"
      [] OTHER                                        -> "mixed"

\* agent.py:520-524: a 200 response ends the loop, whatever it carries
EndsLoop(outcome) == outcome \in {"ok_url", "ok_nourl"}

\* the loop of agent.py:513 as `while True`: a failed poll is never the last
AttachPollRetry_Unbounded(j, outcome) ==
    /\ At(j, "t_attach")
    /\ ~EndsLoop(outcome)
    /\ co' = [co EXCEPT ![j].last_error = LastErrorAfter(outcome, @),
                        ![j].polls = "mixed"]
    /\ UNCHANGED <<active_tasks, busVars, lifecycleFrame>>

\* agent.py:513-532: a poll that neither breaks nor is the last one
AttachPollRetry(j, outcome) ==
    /\ At(j, "t_attach")
    /\ ~EndsLoop(outcome)
    /\ co[j].attempt + 1 < AttachAttempts
    /\ co' = [co EXCEPT ![j].attempt = @ + 1,
                        ![j].last_error = LastErrorAfter(outcome, @),
                        ![j].polls = PollsAfter(@, outcome, co[j].attempt + 1)]
    /\ UNCHANGED <<active_tasks, busVars, lifecycleFrame>>

\* the 200 branch of agent.py:520-524 without its break: the URL is stored
\* and the loop goes on
AttachPollSucceeds_NoBreak(j) ==
    /\ At(j, "t_attach")
    /\ co[j].attempt + 1 < AttachAttempts
    /\ co' = [co EXCEPT ![j].attempt = @ + 1,
                        ![j].polls = PollsAfter(@, "ok_url", co[j].attempt + 1),
                        ![j].cdp_url = "ws url"]
    /\ UNCHANGED <<active_tasks, busVars, lifecycleFrame>>

\* agent.py:520-524 and 534-550: a 200 response with a control URL ends the
\* loop; the engine's Browser is built on that URL and browser.start() is
\* awaited.  last_error is not read after a successful attach and is dropped
\* from the state.
AttachPollSucceeds(j) ==
    /\ At(j, "t_attach")
    /\ co[j].attempt < AttachAttempts
    /\ co' = [co EXCEPT ![j].attempt = @ + 1,
                        ![j].last_error = None,
                        ![j].polls = PollsAfter(@, "ok_url", co[j].attempt + 1),
                        ![j].cdp_url = "ws url", ![j].pc = "t_bstart"]
    /\ UNCHANGED <<active_tasks, busVars, lifecycleFrame>>

\* the message the give-up of agent.py:539 writes around last_error
AttachFailure(last_error) == <<"Failed to connect to Chrome CDP", last_error>>

\* the give-up of agent.py:534-540 without the terminate() of agent.py:538
AttachPollGivesUp_NoTerminate(j, outcome) ==
    /\ At(j, "t_attach")
    /\ outcome # "ok_url"
    /\ EndsLoop(outcome) \/ co[j].attempt + 1 = AttachAttempts
    /\ SetJob(j, UpdateProgress(active_tasks[j], "error", 0,
                                 AttachFailure(LastErrorAfter(outcome, co[j].last_error))),
              [co[j] EXCEPT !.attempt = 0,
                            !.last_error = None,
                            !.polls = PollsAfter(@, outcome, co[j].attempt + 1),
                            !.pc = "done"])
    /\ UNCHANGED lifecycleFrame

\* agent.py:534-540: the loop ended with no control URL (the last poll
\* failed, or a 200 response carried none); last_error goes into the message
\* and the loop's locals are dropped from the state
AttachPollGivesUp(j, outcome) ==
    /\ At(j, "t_attach")
    /\ outcome # "ok_url"
    /\ EndsLoop(outcome) \/ co[j].attempt + 1 = AttachAttempts
    /\ SetJob(j, UpdateProgress(active_tasks[j], "error", 0,
                                 AttachFailure(LastErrorAfter(outcome, co[j].last_error))),
              [co[j] EXCEPT !.attempt = 0,
                            !.last_error = None,
                            !.polls = PollsAfter(@, outcome, co[j].attempt + 1),
                            !.proc = "terminated",
                            !.pc = "done"])
    /\ UNCHANGED lifecycleFrame

\* the loop's local attempt is not read after the attach, and is dropped
\* from the state with the history of the polls once browser.start() has
\* returned or raised
AfterAttach(coroutine) ==
    [coroutine EXCEPT !.attempt = 0, !.polls = "all refused"]

\* agent.py:550-553
TaskBrowserStarts(j) ==
    /\ At(j, "t_bstart")
    /\ SetJob(j, UpdateProgress(active_tasks[j], "running", 20, "Executing task..."),
              [AfterAttach(co[j]) EXCEPT !.pc = "t_agent", !.session = "live"])
    /\ UNCHANGED lifecycleFrame

\* agent.py:546-550 raises
TaskBrowserStartFails(j) ==
    /\ At(j, "t_bstart")
    /\ TaskFails(j, AfterAttach(co[j]))
    /\ UNCHANGED lifecycleFrame

\* agent.py:639-653: the Agent is built and agent.run() is called
TaskRunEngine(j) ==
    /\ At(j, "t_agent")
    /\ co' = [co EXCEPT ![j].pc = "t_run"]
    /\ UNCHANGED <<active_tasks, busVars, lifecycleFrame>>

\* agent.py:643-647 raises
TaskCreateEngineFails(j) ==
    /\ At(j, "t_agent")
    /\ TaskFails(j, co[j])
    /\ UNCHANGED lifecycleFrame

\* agent.py:653-659: agent.run() returned a history (one whose text carries
\* a blocking indicator, or not); browser.get_context() is awaited
TaskRunReturns(j, history) ==
    /\ At(j, "t_run")
    /\ co' = [co EXCEPT ![j].pc = "t_post", ![j].result = history]
    /\ UNCHANGED <<active_tasks, busVars, lifecycleFrame>>

\* agent.py:688-693: agent.run() raised and the text names a protection
TaskRunBlocked(j) ==
    /\ At(j, "t_run")
    /\ SetJob(j, UpdateProgress(active_tasks[j], "blocked", 0, "Blocked by site protection"),
              [co[j] EXCEPT !.pc = "t_stop"])
    /\ UNCHANGED lifecycleFrame

\* agent.py:694-695 and 700-707: agent.run() raised anything else
TaskRunFails(j) ==
    /\ At(j, "t_run")
    /\ TaskFails(j, co[j])
    /\ UNCHANGED lifecycleFrame

\* agent.py:672-686: the check of the history text, then "completed"
HistoryCheck(j, coroutine) ==
    IF coroutine.result = "reports block"
    THEN SetJob(j, UpdateProgress(active_tasks[j], "blocked", 75, "Agent detected page protection/blocking"),
                [coroutine EXCEPT !.pc = "t_hstop"])
    ELSE SetJob(j, UpdateProgress(active_tasks[j], "completed", 100, "Task completed successfully!"),
                [coroutine EXCEPT !.pc = "t_stop"])

\* agent.py:659-664: the page check (agent.py:558-620, which calls
\* check_page_accessibility at agent.py:578) finds the page blocked
TaskPostCheckBlocked(j) ==
    /\ At(j, "t_post")
    /\ SetJob(j, UpdateProgress(active_tasks[j], "blocked", 50, "Page blocked"),
              [co[j] EXCEPT !.pc = "t_pstop", !.checked = TRUE])
    /\ UNCHANGED lifecycleFrame

\* agent.py:658-686: the page check finds the page not blocked, or it is
\* not reached: get_context() gave no context or raised (agent.py:669-670),
\* the context has no page (agent.py:566-568), or page.content() raised
\* (agent.py:618-620); the history check follows
TaskPostCheckClear(j) ==
    /\ At(j, "t_post")
    /\ \E reached \in BOOLEAN : HistoryCheck(j, [co[j] EXCEPT !.checked = reached])
    /\ UNCHANGED lifecycleFrame

\* agent.py:666-668
TaskPostStop(j) ==
    /\ At(j, "t_pstop")
    /\ co' = [co EXCEPT ![j].pc = "done", ![j].session = "stopped"]
    /\ UNCHANGED <<active_tasks, busVars, lifecycleFrame>>

\* agent.py:666 raises inside the try of agent.py:658-670
TaskPostStopFails(j) ==
    /\ At(j, "t_pstop")
    /\ HistoryCheck(j, co[j])
    /\ UNCHANGED lifecycleFrame

\* agent.py:680-681
TaskHistoryStop(j) ==
    /\ At(j, "t_hstop")
    /\ co' = [co EXCEPT ![j].pc = "done", ![j].session = "stopped"]
    /\ UNCHANGED <<active_tasks, busVars, lifecycleFrame>>

\* agent.py:680 raises inside the try of agent.py:674-683, then agent.py:685-686
TaskHistoryStopFails(j) ==
    /\ At(j, "t_hstop")
    /\ SetJob(j, UpdateProgress(active_tasks[j], "completed", 100, "Task completed successfully!"),
              [co[j] EXCEPT !.pc = "t_stop"])
    /\ UNCHANGED lifecycleFrame

\* agent.py:697-698
TaskStop(j) ==
    /\ At(j, "t_stop")
    /\ co' = [co EXCEPT ![j].pc = "done", ![j].session = "stopped"]
    /\ UNCHANGED <<active_tasks, busVars, lifecycleFrame>>

\* agent.py:697 raises
TaskStopFails(j) ==
    /\ At(j, "t_stop")
    /\ TaskFails(j, co[j])
    /\ UNCHANGED lifecycleFrame

\* what agent.run() of a /run-task job can return (agent.py:673-677); an
\* empty history skips the check as a clean one passes it
Histories == {"clean", "reports block"}

run_automation_task(j) ==
    \/ TaskStarting(j)
    \/ TaskEngineUnavailable(j)
    \/ TaskNoApiKey(j)
    \/ TaskInitLLM(j)
    \/ TaskInitLLMFails(j)
    \/ TaskChromeNotFound(j)
    \/ TaskChromeFound(j)
    \/ TaskLaunch(j)
    \/ TaskLaunchFails(j)
    \/ \E outcome \in PollOutcomes : AttachPollRetry(j, outcome)
    \/ AttachPollSucceeds(j)
    \/ \E outcome \in PollOutcomes : AttachPollGivesUp(j, outcome)
    \/ TaskBrowserStarts(j)
    \/ TaskBrowserStartFails(j)
    \/ TaskRunEngine(j)
    \/ TaskCreateEngineFails(j)
    \/ \E history \in Histories : TaskRunReturns(j, history)
    \/ TaskRunBlocked(j)
    \/ TaskRunFails(j)
    \/ TaskPostCheckBlocked(j)
    \/ TaskPostCheckClear(j)
    \/ TaskPostStop(j)
    \/ TaskPostStopFails(j)
    \/ TaskHistoryStop(j)
    \/ TaskHistoryStopFails(j)
    \/ TaskStop(j)
    \/ TaskStopFails(j)

(***************************************************************************)
(* The service on a machine where no browser can be started: the engine is  *)
(* missing, the LLM client cannot be built, or neither the engine's Browser *)
(* nor Chrome is there.  Jobs run their setup steps and end.                *)
(***************************************************************************)
SetupLifecycle(j) ==
    \/ ApplyStarting(j)
    \/ ApplyCreateAgent(j)
    \/ ApplyEngineUnavailable(j)
    \/ ApplyInitLLM(j)
    \/ ApplyInitLLMFails(j)
    \/ ApplyCreateBrowserFails(j)
    \/ ApplyFailedResult(j)
    \/ ApplyClose(j)
    \/ TaskStarting(j)
    \/ TaskEngineUnavailable(j)
    \/ TaskNoApiKey(j)
    \/ TaskInitLLM(j)
    \/ TaskInitLLMFails(j)
    \/ TaskChromeNotFound(j)

(***************************************************************************)
(* Subscribers: websocket_progress (main.py:238-259) and the sends of       *)
(* update_progress (main.py:275-286, agent.py:403-413).                     *)
(***************************************************************************)
subscriberFrame == <<envVars, active_tasks, co, decisions, submitStarted, response, detVars>>

Without(f, k) == [t \in DOMAIN f \ {k} |-> f[t]]

\* main.py:238-254: accept() has returned; the socket is stored in the
\* task's slot, replacing the socket that was there, and the first pass of
\* the loop sends a snapshot of the entry
websocket_progress(s, id) ==
    /\ Idle
    /\ ws[s].state = "idle"
    /\ s = "w2" => ws["w1"].state # "idle"
    /\ websocket_connections' =
           [t \in DOMAIN websocket_connections \cup {id} |->
               IF t = id THEN s ELSE websocket_connections[t]]
    /\ ws' = [ws EXCEPT ![s] = [state |-> "open", task_id |-> id,
                                seen |-> TRUE, missed |-> FALSE]]
    /\ UNCHANGED <<sending, subscriberFrame>>

\* main.py:245-255: a later pass of the loop, one second after the last,
\* sends the next snapshot of the entry
SendSnapshot(s) ==
    /\ Idle
    /\ ws[s].state = "open"
    /\ ws[s].task_id \in Ids
    /\ ws' = [ws EXCEPT ![s].seen = TRUE]
    /\ UNCHANGED <<websocket_connections, sending, subscriberFrame>>

\* the client closes its end, or the connection breaks
ClientDisconnects(s) ==
    /\ Idle
    /\ ws[s].state = "open"
    /\ ws' = [ws EXCEPT ![s].state = "closed"]
    /\ UNCHANGED <<websocket_connections, sending, subscriberFrame>>

\* main.py:248-259: the handler's next send raises.  A WebSocketDisconnect
\* is handled: the task's slot is deleted, whichever socket it holds; any
\* other exception leaves the handler with the slot as it is.
HandlerEnds(s, handled) ==
    /\ Idle
    /\ ws[s].state = "closed"
    /\ ws' = [ws EXCEPT ![s].state = "ended"]
    /\ websocket_connections' =
           IF handled /\ ws[s].task_id \in DOMAIN websocket_connections
           THEN Without(websocket_connections, ws[s].task_id)
           ELSE websocket_connections
    /\ UNCHANGED <<sending, subscriberFrame>>

\* main.py:277-284: the send update_progress awaits returns
SendCompletes(j) ==
    /\ Idle
    /\ j \in DOMAIN sending
    /\ ws[sending[j]].state = "open"
    /\ sending' = Without(sending, j)
    /\ ws' = [ws EXCEPT ![sending[j]].seen = TRUE]
    /\ UNCHANGED <<websocket_connections, subscriberFrame>>

\* the send of main.py:277 raising into the coroutine's own handler
\* (main.py:328-330) instead of the except of main.py:285-286
SendFails_Propagates(j) ==
    /\ Idle
    /\ j \in DOMAIN sending
    /\ ws[sending[j]].state # "open"
    /\ sending' = Without(sending, j)
    /\ active_tasks' = [active_tasks EXCEPT ![j] = UpdateProgress(@, "error", 0, "Error")]
    /\ co' = [co EXCEPT ![j].pc = "done"]
    /\ UNCHANGED <<websocket_connections, ws, envVars, decisions, submitStarted, response, detVars>>

\* main.py:285-286, agent.py:412-413: the send raises and the exception is
\* dropped
SendFails(j) ==
    /\ Idle
    /\ j \in DOMAIN sending
    /\ ws[sending[j]].state # "open"
    /\ sending' = Without(sending, j)
    /\ UNCHANGED <<websocket_connections, ws, subscriberFrame>>

\* the service of SetupLifecycle with clients subscribing to its jobs
NextBus ==
    \/ \E id \in TaskIds : Room(MaxJobs) /\ run_task(id)
    \/ \E id \in TaskIds : Room(MaxJobs) /\ start_application(id, "semi", TRUE, FALSE)
    \/ ReturnResponse
    \/ \E j \in TaskIds : SetupLifecycle(j)
    \/ \E s \in Sockets, id \in TaskIds : id \in Ids /\ websocket_progress(s, id)
    \/ \E s \in Sockets : SendSnapshot(s)
    \/ \E s \in Sockets : ClientDisconnects(s)
    \/ \E s \in Sockets, handled \in BOOLEAN : HandlerEnds(s, handled)
    \/ \E j \in TaskIds : SendCompletes(j)
    \/ \E j \in TaskIds : SendFails(j)

SpecBus == Init /\ [][NextBus]_vars

\* number of successful job creations explored by SpecRegistry
RegistryJobs == 2

(***************************************************************************)
(* Concurrent /run-task jobs from their creation to the attach of their     *)
(* browser, each poll of the debugging endpoint being answered at once.     *)
(***************************************************************************)
\* number of /run-task jobs explored by SpecLaunch
LaunchJobs == 2

LaunchLifecycle(j) ==
    \/ TaskStarting(j)
    \/ TaskEngineUnavailable(j)
    \/ TaskNoApiKey(j)
    \/ TaskInitLLM(j)
    \/ TaskInitLLMFails(j)
    \/ TaskChromeNotFound(j)
    \/ TaskChromeFoundOnPort(j)
    \/ TaskLaunch(j)
    \/ TaskLaunchFails(j)
    \/ AttachPollSucceeds(j)
    \/ \E outcome \in {"ok_nourl"} : AttachPollGivesUp(j, outcome)

NextLaunch ==
    \/ \E id \in 1..LaunchJobs : Room(LaunchJobs) /\ run_task(id)
    \/ ReturnResponse
    \/ \E j \in 1..LaunchJobs : LaunchLifecycle(j)

SpecLaunch == Init /\ [][NextLaunch]_vars

(***************************************************************************)
(* The detector of utils.py.  A page text (html_content) is a sequence of   *)
(* pieces of text; the pieces are chosen so that every phrase the detector  *)
(* looks for lies inside one piece or is absent.                            *)
(***************************************************************************)
\* longest page text explored, in pieces
MaxPieces == 2

\* utils.py:446  len(html_content.strip()) < 100
MinContentLength == 100

\* the pieces a page text is drawn from
PageTexts == {"Ray ID:", "cloudflare", "CAPTCHA", "Too Many Requests", " ", "Welcome", "lorem100"}

\* len() of a piece; "lorem100" stands for 100 characters of plain lowercase text
TextLen(t) ==
    CASE t \in {"Ray ID:", "ray id:", "CAPTCHA", "captcha", "Welcome", "welcome"} -> 7
      [] t \in {"<html>Checking your browser... ", "<html>checking your browser... "} -> 31
      [] t = " abc123</html>" -> 14
      [] t = "cloudflare" -> 10
      [] t \in {"Too Many Requests", "too many requests"} -> 17
      [] t = " " -> 1
      [] t = "lorem100" -> 100

\* str.lower() of a piece
LowerText(t) ==
    CASE t = "Ray ID:" -> "ray id:"
      [] t = "CAPTCHA" -> "captcha"
      [] t = "Too Many Requests" -> "too many requests"
      [] t = "Welcome" -> "welcome"
      [] t = "<html>Checking your browser... " -> "<html>checking your browser... "
      [] OTHER -> t

\* the phrases of the detector's three lists that are substrings of a piece
\* (the comparison is the case-sensitive one of Python's in)
PhrasesIn(t) ==
    CASE t = "Ray ID:" -> {"Ray ID:"}
      [] t = "cloudflare" -> {"cloudflare"}
      [] t = "captcha" -> {"captcha"}
      [] t = "too many requests" -> {"too many requests"}
      [] OTHER -> {}

\* phrase in html_content
Occurs(phrase, html_content) ==
    \E i \in DOMAIN html_content : phrase \in PhrasesIn(html_content[i])

\* html_content.lower()
Lower(html_content) == [i \in DOMAIN html_content |-> LowerText(html_content[i])]

RECURSIVE LStrip(_)
LStrip(html_content) ==
    IF html_content # <<>> /\ Head(html_content) = " "
    THEN LStrip(Tail(html_content))
    ELSE html_content

RECURSIVE RStrip(_)
RStrip(html_content) ==
    IF html_content # <<>> /\ html_content[Len(html_content)] = " "
    THEN RStrip(SubSeq(html_content, 1, Len(html_content) - 1))
    ELSE html_content

\* html_content.strip()
Strip(html_content) == RStrip(LStrip(html_content))

RECURSIVE StrLen(_)
\* len(html_content)
StrLen(html_content) ==
    IF html_content = <<>> THEN 0
    ELSE TextLen(Head(html_content)) + StrLen(Tail(html_content))

\* the headers the detector reads; a header that is absent has the value None
HeaderNames == {"Server", "X-RateLimit-Remaining", "X-Rate-Limit-Remaining",
                "RateLimit-Remaining", "Retry-After"}

\* int(value) of utils.py:386 succeeds
ParsesAsInt(value) == value \in {"0", "5"}

\* int(value)
IntValue(value) == IF value = "0" THEN 0 ELSE 5

\* utils.py:193-205
cloudflare_flags ==
    {"403 Forbidden", "cloudflare", "Security check", "Please Wait... | Cloudflare",
     "We are checking your browser...", "Checking your browser before accessing",
     "This process is automatic.", "DDoS protection by", "Ray ID:", "_cf_chl",
     "cf-spinner-please-wait"}

\* has_cloudflare_protection testing the status of utils.py:208 against 503 only
has_cloudflare_protection_Only503(status_code, headers, html_content) ==
    LET server_header == IF headers["Server"] = None THEN "" ELSE LowerText(headers["Server"])
    IN  /\ status_code = 503
        /\ \/ /\ server_header = "cloudflare"
              /\ \E flag \in cloudflare_flags : Occurs(flag, html_content)
           \/ \E flag \in cloudflare_flags : Occurs(flag, html_content)

\* utils.py:164-220
has_cloudflare_protection(status_code, headers, html_content) ==
    LET server_header == IF headers["Server"] = None THEN "" ELSE LowerText(headers["Server"])
    IN  /\ status_code \in {403, 503}
        /\ \/ /\ server_header = "cloudflare"
              /\ \E flag \in cloudflare_flags : Occurs(flag, html_content)
           \/ \E flag \in cloudflare_flags : Occurs(flag, html_content)

\* utils.py:339-351
captcha_indicators ==
    {"captcha", "g-recaptcha", "h-captcha", "hcaptcha", "cf-turnstile", "recaptcha",
     "verify you are human", "prove you are human", "human verification",
     "bot detection", "security challenge"}

\* utils.py:329-354
is_captcha_page(html_content) ==
    \E indicator \in captcha_indicators : Occurs(indicator, Lower(html_content))

\* utils.py:374-379
rate_limit_headers ==
    {"X-RateLimit-Remaining", "X-Rate-Limit-Remaining", "RateLimit-Remaining", "Retry-After"}

\* utils.py:396-402
rate_limit_indicators ==
    {"rate limit", "too many requests", "slow down", "try again later",
     "request limit exceeded"}

\* utils.py:357-405
is_rate_limited(status_code, headers, html_content) ==
    \/ status_code = 429
    \/ \E header \in rate_limit_headers :
          /\ headers[header] # None
          /\ IF header # "Retry-After"
             THEN ParsesAsInt(headers[header]) /\ IntValue(headers[header]) = 0
             ELSE TRUE
    \/ \E indicator \in rate_limit_indicators : Occurs(indicator, Lower(html_content))

\* the returned pair; a reason is the sequence of the parts of its text
Verdict(is_accessible, reason) == [is_accessible |-> is_accessible, reason |-> reason]

\* check_page_accessibility with the CAPTCHA and the rate-limit checks of
\* utils.py:434-439 in the other order
check_page_accessibility_RateFirst(status_code, headers, html_content) ==
    IF has_cloudflare_protection(status_code, headers, html_content)
    THEN Verdict(FALSE, <<"Cloudflare protection detected">>)
    ELSE IF is_rate_limited(status_code, headers, html_content)
    THEN Verdict(FALSE, <<"Rate limiting detected">>)
    ELSE IF is_captcha_page(html_content)
    THEN Verdict(FALSE, <<"CAPTCHA challenge detected">>)
    ELSE IF status_code >= 400
    THEN Verdict(FALSE, <<"HTTP error", status_code>>)
    ELSE IF html_content = <<>> \/ StrLen(Strip(html_content)) < MinContentLength
    THEN Verdict(FALSE, <<"Empty or minimal page content">>)
    ELSE Verdict(TRUE, <<"Page is accessible">>)

\* utils.py:408-449
check_page_accessibility(status_code, headers, html_content) ==
    IF has_cloudflare_protection(status_code, headers, html_content)
    THEN Verdict(FALSE, <<"Cloudflare protection detected">>)
    ELSE IF is_captcha_page(html_content)
    THEN Verdict(FALSE, <<"CAPTCHA challenge detected">>)
    ELSE IF is_rate_limited(status_code, headers, html_content)
    THEN Verdict(FALSE, <<"Rate limiting detected">>)
    ELSE IF status_code >= 400
    THEN Verdict(FALSE, <<"HTTP error", status_code>>)
    ELSE IF html_content = <<>> \/ StrLen(Strip(html_content)) < MinContentLength
    THEN Verdict(FALSE, <<"Empty or minimal page content">>)
    ELSE Verdict(TRUE, <<"Page is accessible">>)

\* the page texts of at most MaxPieces pieces
PageHtmls == UNION {[1..n -> PageTexts] : n \in 0..MaxPieces}

\* the header dicts explored
PageHeaders ==
    {h \in [HeaderNames -> {None, "cloudflare", "nginx", "0", "5", "soon", "120"}] :
        /\ h["Server"] \in {None, "cloudflare", "nginx"}
        /\ h["X-RateLimit-Remaining"] \in {None, "0", "5", "soon"}
        /\ h["X-Rate-Limit-Remaining"] \in {None, "0"}
        /\ h["RateLimit-Remaining"] \in {None, "0"}
        /\ h["Retry-After"] \in {None, "120"}}

\* the responses handed to the detector
Pages ==
    [status_code : {200, 403, 404, 429, 503}, headers : PageHeaders, html_content : PageHtmls]

\* an empty headers dict
NoHeaders == [h \in HeaderNames |-> None]

\* four reference responses of the detector: a Cloudflare challenge, a
\* welcome page, a rate-limit answer, an empty page
CloudflareReference ==
    [status_code |-> 403,
     headers |-> [NoHeaders EXCEPT !["Server"] = "cloudflare"],
     html_content |-> <<"<html>Checking your browser... ", "Ray ID:", " abc123</html>">>]
WelcomeReference ==
    [status_code |-> 200, headers |-> NoHeaders, html_content |-> <<"Welcome", "lorem100">>]
RateLimitReference ==
    [status_code |-> 429, headers |-> NoHeaders, html_content |-> <<"too many requests">>]
EmptyReference ==
    [status_code |-> 200, headers |-> NoHeaders, html_content |-> <<>>]
ReferencePages == {CloudflareReference, WelcomeReference, RateLimitReference, EmptyReference}

InitDetector ==
    /\ browserUseAvailable = FALSE
    /\ envApiKey = FALSE
    /\ active_tasks = <<>>
    /\ co = <<>>
    /\ decisions = <<>>
    /\ submitStarted = <<>>
    /\ response = NoResponse
    /\ websocket_connections = <<>>
    /\ ws = [s \in Sockets |-> NoSocket]
    /\ sending = <<>>
    /\ page \in Pages \cup ReferencePages
    /\ verdict = NoVerdict

\* one call of check_page_accessibility on the page
CheckPage ==
    /\ verdict = NoVerdict
    /\ verdict' = check_page_accessibility(page.status_code, page.headers, page.html_content)
    /\ UNCHANGED <<envVars, active_tasks, co, decisions, submitStarted, response, busVars, page>>

NextDetector == CheckPage

SpecDetector == InitDetector /\ [][NextDetector]_vars

\* concurrent creations, status reads and coroutines over the one registry
NextRegistry ==
    \/ \E id \in 1..RegistryJobs : Room(RegistryJobs) /\ run_task(id)
    \/ \E id \in 1..RegistryJobs, mode \in {"semi", "full"}, k \in BOOLEAN :
          /\ Room(RegistryJobs)
          /\ Accepts(mode, k)
          /\ start_application(id, mode, k, FALSE)
    \/ \E id \in 0..RegistryJobs : get_status(id)
    \/ ReturnResponse
    \/ \E j \in 1..RegistryJobs : SetupLifecycle(j)

SpecRegistry == Init /\ [][NextRegistry]_vars

(***************************************************************************)
(* Properties.                                                              *)
(***************************************************************************)
Status(j) == active_tasks[j].status
Progress(j) == active_tasks[j].progress

TerminalStates == {"completed", "cancelled", "error"}

\* C1: the submission run (submit_agent.run()) has been started for a job
\* only if a "submit" decision was accepted for it while it was in
\* awaiting_confirmation, or the job was created with the full-auto mode.
C1_SubmitNeedsAuthorization ==
    \A j \in Ids :
        submitStarted[j] => ("submit" \in decisions[j].accepted \/ co[j].mode = "full")

\* C1 witness: a submission run has been started
C1_Witness ==
    \E j \in Ids : submitStarted[j] /\ co[j].pc = "a_submit_run"

\* C2: a job created with mode "semi" is completed only after it was parked
\* in awaiting_confirmation and a "submit" decision was accepted there.
C2_SemiCompletedOnlyAfterSubmit ==
    \A j \in Ids :
        (co[j].mode = "semi" /\ Status(j) = "completed")
            => "submit" \in decisions[j].accepted

\* C3: a job created with mode "full" is never in awaiting_confirmation.
C3_FullNeverAwaits ==
    \A j \in Ids : co[j].mode = "full" => Status(j) # "awaiting_confirmation"

\* C3 witness: a full-mode job whose engine run succeeded has been through
\* the branch of main.py:311 and is completed
C3_Witness ==
    \E j \in Ids : /\ co[j].mode = "full"
                   /\ co[j].result.success
                   /\ co[j].pc = "a_close"
                   /\ Status(j) = "completed"

\* C4: at most one confirm_submission call is accepted per job.
C4_AtMostOneDecisionAccepted ==
    \A j \in Ids : decisions[j].count <= 1

\* C5: once a job's state is completed, cancelled or error, no later step
\* changes its state or its progress.
C5_TerminalAbsorbing ==
    [][\A j \in Ids :
          Status(j) \in TerminalStates
              => /\ active_tasks'[j].status = Status(j)
                 /\ active_tasks'[j].progress = Progress(j)]_vars

\* C6: every write leaves progress in 0..100 and does not lower it, except
\* that a write into blocked or error may set it to 0.
C6_ProgressMonotone ==
    [][\A j \in DOMAIN active_tasks' :
          /\ active_tasks'[j].progress \in 0..100
          /\ j \in Ids
                => \/ active_tasks'[j].progress >= Progress(j)
                   \/ /\ active_tasks'[j].status \in {"blocked", "error"}
                      /\ active_tasks'[j].progress = 0]_vars

\* C6 witness: a job was reset to 0 by an error write after it had reached
\* progress 100 with its completed write
C6_Witness ==
    \E j \in Ids : /\ Status(j) = "error"
                   /\ Progress(j) = 0
                   /\ "Task completed successfully!" \in {active_tasks[j].messages[i] : i \in DOMAIN active_tasks[j].messages}

\* C7: confirm_submission on a job that is not in awaiting_confirmation
\* answers 400 "Task not awaiting confirmation" and changes nothing: the
\* job's state, progress, messages and user_action are the same and no
\* decision is recorded.
C7_DecideRejectedUnlessAwaiting ==
    [][\A id \in TaskIds, a \in ConfirmActions :
          (id \in Ids /\ Status(id) # "awaiting_confirmation" /\ confirm_submission(id, a))
              => /\ response' = Resp(400, "Task not awaiting confirmation")
                 /\ active_tasks' = active_tasks
                 /\ decisions' = decisions]_vars

\* C7 witness: a call on a completed job has just been rejected
C7_Witness ==
    /\ response = Resp(400, "Task not awaiting confirmation")
    /\ \E j \in Ids : Status(j) = "completed" /\ active_tasks[j].user_action = None

\* C8: get_status and confirm_submission on an id that run_task and
\* start_application never returned answer 404 and leave the registry as it was.
C8_UnknownIdNotFound ==
    [][\A id \in RequestIds, a \in ConfirmActions :
          (id \notin Ids /\ (get_status(id) \/ confirm_submission(id, a)))
              => /\ response' = Resp(404, "Task not found")
                 /\ UNCHANGED <<active_tasks, co, decisions, submitStarted>>]_vars

\* C8 witness: a request on an unknown id has just been answered 404 while
\* the registry holds a job
C8_Witness ==
    /\ response = Resp(404, "Task not found")
    /\ Ids # {}

\* C9 as stated: a job leaves awaiting_confirmation only after an accepted
\* decision, and only to the submission step (the spec's submitting; the
\* code writes "submitted") or to cancelled.
C9_OnlySubmittingOrCancelled ==
    [][\A j \in Ids :
          (Status(j) = "awaiting_confirmation" /\ active_tasks'[j].status # "awaiting_confirmation")
              => /\ decisions[j].count > 0
                 /\ active_tasks'[j].status \in {"submitting", "submitted", "cancelled"}]_vars

\* C9 as amended: a job leaves awaiting_confirmation only after an accepted
\* decision; when the decision read is "cancel" the next state is cancelled,
\* when it is "submit" the next state is submitted, or error when the
\* submission fails; submitted is followed by completed.
C9_LeavesOnlyByDecision ==
    [][\A j \in Ids :
          /\ (Status(j) = "awaiting_confirmation" /\ active_tasks'[j].status # "awaiting_confirmation")
                => /\ decisions[j].count > 0
                   /\ \/ /\ active_tasks'[j].status = "cancelled"
                         /\ active_tasks[j].user_action = "cancel"
                      \/ /\ active_tasks'[j].status \in {"submitted", "error"}
                         /\ "submit" \in decisions[j].accepted
          /\ (Status(j) = "submitted" /\ active_tasks'[j].status # "submitted")
                => active_tasks'[j].status = "completed"]_vars

\* C9 witness: a job has left awaiting_confirmation after a submit decision
\* and its submission failed
C9_Witness ==
    \E j \in Ids : /\ Status(j) = "error"
                   /\ Progress(j) = 95
                   /\ "submit" \in decisions[j].accepted

\* C10: when the lifecycle of a job that launched or attached a browser has
\* ended (the job is completed, cancelled, error or blocked), the browser
\* has been released: the process terminated or the session stopped.
C10_BrowserReleased ==
    \A j \in Ids :
        (co[j].pc = "done" /\ (co[j].proc = "live" \/ co[j].session # "none"))
            => (co[j].proc = "terminated" \/ co[j].session = "stopped")

Messages(j) == {active_tasks[j].messages[i] : i \in DOMAIN active_tasks[j].messages}
LastMessage(j) == active_tasks[j].messages[Len(active_tasks[j].messages)]

C12_AttachExhaustion ==
    /\ [](\A j \in Ids :
            co[j].polls = "budget refused"
                => /\ co[j].pc = "done"
                   /\ co[j].proc = "terminated"
                   /\ co[j].cdp_url = None
                   /\ Status(j) = "error"
                   /\ LastMessage(j) = AttachFailure("Connection refused")
                   /\ "Executing task..." \notin Messages(j))
    /\ [][\A j \in Ids :
            /\ (co[j].polls = "all refused" /\ AttachPollGivesUp(j, "refused"))
                  => /\ co[j].attempt + 1 = AttachAttempts
                     /\ co'[j].polls = "budget refused"
            /\ co[j].polls = "budget refused"
                  => /\ active_tasks'[j] = active_tasks[j]
                     /\ co'[j] = co[j]]_vars

\* C12 witness: a job whose 20 polls were all refused
C12_Witness ==
    \E j \in Ids : /\ co[j].polls = "budget refused"
                   /\ co[j].proc = "terminated"
                   /\ Status(j) = "error"

\* C13: when run_task or start_application registers a job, the entry it
\* leaves is in state queued with progress 0, the response carrying the id
\* is a success, and the job's coroutine has not run: it has made no write
\* and started no browser work.
C13_CreatedQueuedBeforeLifecycle ==
    [][\A id \in DOMAIN active_tasks' :
          id \notin Ids
              => /\ active_tasks'[id].status = "queued"
                 /\ active_tasks'[id].progress = 0
                 /\ response' = Resp(200, "ok")
                 /\ co'[id].pc \in {"a_start", "t_start"}
                 /\ co'[id].proc = "none"
                 /\ co'[id].session = "none"]_vars

\* C14: a job is registered only for a request whose mode is one of the
\* two modes: a request with another mode, or with none, is rejected and
\* leaves the registry as it was, so every registered job carries "semi" or
\* "full".
C14_EveryJobHasAMode ==
    [][/\ \A id \in DOMAIN active_tasks' :
             id \notin Ids => co'[id].mode \in {"semi", "full"}
       /\ \A id \in 1..(MaxJobs + 1), mode \in RequestModes, k \in BOOLEAN, p \in BOOLEAN :
             (mode \notin {"semi", "full"} /\ start_application(id, mode, k, p))
                 => /\ response' = Resp(422, "validation error")
                    /\ active_tasks' = active_tasks]_vars

IsPrefix(s, t) == Len(s) <= Len(t) /\ SubSeq(t, 1, Len(s)) = s

\* C15: every successful creation adds exactly one entry under an id not in
\* the registry and leaves the other entries as they were; no entry is ever
\* removed; a status read changes nothing; and a step of one job's
\* coroutine changes no other job's entry and only appends to its own
\* messages.
C15_RegistryIsolation ==
    [][/\ Ids \subseteq DOMAIN active_tasks'
       /\ \A id \in 1..RegistryJobs, mode \in {"semi", "full"}, k \in BOOLEAN :
             (run_task(id) \/ (Accepts(mode, k) /\ start_application(id, mode, k, FALSE)))
                 => /\ id \notin Ids
                    /\ DOMAIN active_tasks' = Ids \cup {id}
                    /\ \A i \in Ids : active_tasks'[i] = active_tasks[i]
       /\ \A id \in 0..RegistryJobs : get_status(id) => active_tasks' = active_tasks
       /\ \A j \in Ids :
             co'[j] # co[j]
                 => /\ \A i \in Ids \ {j} : active_tasks'[i] = active_tasks[i]
                    /\ IsPrefix(active_tasks[j].messages, active_tasks'[j].messages)]_vars

\* C15 witness: two jobs are registered, the coroutines of both are in the
\* middle of their writes, and a status read has just been answered
C15_Witness ==
    /\ Cardinality(Ids) = RegistryJobs
    /\ \A j \in Ids : co[j].pc # "done" /\ Len(active_tasks[j].messages) >= 2
    /\ response = Resp(200, "ok")

\* C16: a subscriber that is connected has received every write made to
\* its job since it subscribed: no write was replaced by the next one
\* before the subscriber got it, whatever other subscribers of the job did.
C16_SubscriberReceivesEveryEvent ==
    \A s \in Sockets : ws[s].state = "open" => ~ws[s].missed

\* C17: a job's coroutine that has steps left can always take its next
\* step: it never waits for a subscriber's send to complete.
C17_PublishNeverWaits ==
    \A j \in Ids : (Idle /\ co[j].pc # "done") => ENABLED SetupLifecycle(j)

\* C18: a subscriber connecting, being sent a snapshot, disconnecting, its
\* handler ending, and a send to it completing or failing all leave the
\* registry and every coroutine as they were, and after a failed send the
\* coroutine is no longer suspended.
C18_SubscribersLeaveJobsAlone ==
    [][/\ \A s \in Sockets, id \in TaskIds, handled \in BOOLEAN :
             (\/ websocket_progress(s, id)
              \/ SendSnapshot(s)
              \/ ClientDisconnects(s)
              \/ HandlerEnds(s, handled))
                 => UNCHANGED <<active_tasks, co, decisions, submitStarted, sending>>
       /\ \A j \in TaskIds :
             (SendCompletes(j) \/ SendFails(j))
                 => /\ UNCHANGED <<active_tasks, co, decisions, submitStarted>>
                    /\ j \notin DOMAIN sending']_vars

\* C18 witness: a job ran to its end although the subscriber it was sending
\* to had disconnected and its handler had ended
C18_Witness ==
    \E j \in Ids, s \in Sockets :
        /\ ws[s].task_id = j
        /\ ws[s].state = "ended"
        /\ j \in DOMAIN websocket_connections
        /\ co[j].pc = "done"
        /\ Len(active_tasks[j].messages) >= 3
        /\ j \notin DOMAIN sending

\* the engine's run of job j is in flight (agent.py:195, agent.py:653)
RunInFlight(j) == co[j].pc \in {"a_run", "t_run"}

\* C19: a cancel posted for a job whose engine run is in flight is honored:
\* the request is accepted and recorded for the job's coroutine, and the
\* entry stays in the registry.
C19_CancelWhileRunningHonored ==
    [][\A id \in TaskIds :
          (id \in Ids /\ RunInFlight(id) /\ confirm_submission(id, "cancel"))
              => /\ response' = Resp(200, "ok")
                 /\ active_tasks'[id].user_action = "cancel"
                 /\ id \in DOMAIN active_tasks']_vars

\* the five conditions check_page_accessibility tests, on the current page
IsCloudflare == has_cloudflare_protection(page.status_code, page.headers, page.html_content)
IsCaptcha == is_captcha_page(page.html_content)
IsRateLimited == is_rate_limited(page.status_code, page.headers, page.html_content)
IsHttpError == page.status_code >= 400
IsMinimal == StrLen(Strip(page.html_content)) < MinContentLength

\* C20: check_page_accessibility returns the reason of the first check that
\* matches, in the order Cloudflare, CAPTCHA, rate limiting, HTTP error
\* (status >= 400), minimal content (stripped length under the minimum), and
\* says accessible exactly when none of the five matches.
C20_FirstMatchWins ==
    verdict # NoVerdict =>
        /\ verdict.reason = <<"Cloudflare protection detected">> <=> IsCloudflare
        /\ verdict.reason = <<"CAPTCHA challenge detected">> <=> (~IsCloudflare /\ IsCaptcha)
        /\ verdict.reason = <<"Rate limiting detected">>
              <=> (~IsCloudflare /\ ~IsCaptcha /\ IsRateLimited)
        /\ verdict.reason = <<"HTTP error", page.status_code>>
              <=> (~IsCloudflare /\ ~IsCaptcha /\ ~IsRateLimited /\ IsHttpError)
        /\ verdict.reason = <<"Empty or minimal page content">>
              <=> (~IsCloudflare /\ ~IsCaptcha /\ ~IsRateLimited /\ ~IsHttpError /\ IsMinimal)
        /\ verdict.is_accessible
              <=> ~(IsCloudflare \/ IsCaptcha \/ IsRateLimited \/ IsHttpError \/ IsMinimal)
        /\ verdict.is_accessible <=> verdict.reason = <<"Page is accessible">>

\* C20 witness: a page on which the last four checks all match has been
\* given the reason of the first of them
C20_Witness ==
    /\ verdict # NoVerdict
    /\ ~IsCloudflare /\ IsCaptcha /\ IsRateLimited /\ IsHttpError /\ IsMinimal
    /\ verdict = Verdict(FALSE, <<"CAPTCHA challenge detected">>)

\* C21: the detector classifies its four reference responses as documented:
\* 403 from a cloudflare server with a "Checking your browser... Ray ID:" page
\* is a Cloudflare block; 200 with a welcome page of at least the minimum
\* length is accessible; 429 with "too many requests" is rate limited; 200
\* with an empty page is empty content.
C21_ReferenceInputs ==
    verdict # NoVerdict =>
        /\ page = CloudflareReference
              => verdict = Verdict(FALSE, <<"Cloudflare protection detected">>)
        /\ page = WelcomeReference => verdict = Verdict(TRUE, <<"Page is accessible">>)
        /\ page = RateLimitReference => verdict = Verdict(FALSE, <<"Rate limiting detected">>)
        /\ page = EmptyReference
              => verdict = Verdict(FALSE, <<"Empty or minimal page content">>)

\* C21 witness: the Cloudflare reference response has been classified
C21_Witness ==
    /\ page = CloudflareReference
    /\ verdict = Verdict(FALSE, <<"Cloudflare protection detected">>)

\* C22: once a job's state is blocked, no later step writes to its entry:
\* its state, progress and messages stay as the blocked write left them
\* (also when stopping the browser right after the write fails), and the
\* engine's run is not started again.
C22_BlockedIsFinal ==
    [][\A j \in Ids :
          Status(j) = "blocked"
              => /\ active_tasks'[j] = active_tasks[j]
                 /\ ~RunInFlight(j)']_vars

\* the engine's run of job j raised: on the /api/apply path the handler of
\* agent.py:210-211 wrote its message after the Agent was built; on the
\* /run-task path the handler of agent.py:688-693 found a blocking indicator
EngineRunFailed(j) ==
    \/ co[j].kind = "apply" /\ co[j].self_agent /\ "Application failed" \in Messages(j)
    \/ co[j].kind = "task" /\ "Blocked by site protection" \in Messages(j)

\* C23: a failure of the engine's run moves the job to error, or to blocked
\* when its message carries a blocking indicator, and on both job paths a
\* job whose engine run failed is never moved to completed.
C23_FailedRunNeverCompleted ==
    [][\A j \in Ids :
          /\ (ApplyRunFails(j) \/ TaskRunFails(j)) => active_tasks'[j].status = "error"
          /\ TaskRunBlocked(j) => active_tasks'[j].status = "blocked"
          /\ EngineRunFailed(j) => active_tasks'[j].status # "completed"]_vars

\* the automation engine cannot serve job j: the library did not import
\* (agent.py:157, agent.py:418), or the job takes its API key from the
\* environment and there is none (agent.py:425-426)
EngineMissing(j) ==
    \/ ~browserUseAvailable
    \/ co[j].kind = "task" /\ ~envApiKey

\* C24: a job for which the automation engine is not available (library not
\* importable, or no API key) is never in running, awaiting_confirmation or
\* completed, and when its coroutine has ended it is in error.
C24_EngineMissingEndsInError ==
    \A j \in Ids :
        EngineMissing(j)
            => /\ Status(j) \notin {"running", "awaiting_confirmation", "completed"}
               /\ co[j].pc = "done" => Status(j) = "error"

\* a step of job j's coroutine in which one of its setup steps fails: the
\* engine check, the API key, the LLM client, the Chrome executable, the
\* launch, the attach, the engine's Browser
SetupFails(j) ==
    \/ TaskEngineUnavailable(j)
    \/ TaskNoApiKey(j)
    \/ TaskInitLLMFails(j)
    \/ TaskChromeNotFound(j)
    \/ TaskLaunchFails(j)
    \/ \E outcome \in PollOutcomes : AttachPollGivesUp(j, outcome)
    \/ TaskBrowserStartFails(j)
    \/ ApplyEngineUnavailable(j)
    \/ ApplyInitLLMFails(j)
    \/ ApplyCreateBrowserFails(j)

\* C25: a failure during setup moves the job directly to error with a
\* message, and ends the job's coroutine there, so that the job enters no
\* later lifecycle state.
C25_SetupFailureEndsInError ==
    [][\A j \in Ids :
          SetupFails(j)
              => /\ active_tasks'[j].status = "error"
                 /\ Len(active_tasks'[j].messages) = Len(active_tasks[j].messages) + 1
                 /\ co'[j].pc = "done"]_vars

\* job j has been parked in awaiting_confirmation (main.py:312)
WasParked(j) == "Application filled. Awaiting teacher review..." \in Messages(j)

\* C26: for a job in review mode ("semi"), when apply_to_university returns
\* a result that says ready_for_review the job moves to
\* awaiting_confirmation, and when it returns one that does not the job
\* moves to completed; and a review-mode job whose engine run succeeded is
\* in a terminal state only after it was parked in awaiting_confirmation.
C26_ReviewModeParks ==
    /\ [][\A j \in Ids :
            co[j].mode = "semi"
                => /\ (ApplyResult(j) /\ co[j].result.ready_for_review)
                        => active_tasks'[j].status = "awaiting_confirmation"
                   /\ (\/ ApplyResult(j) /\ ~co[j].result.ready_for_review
                       \/ ApplyFailedResult(j)
                       \/ ApplyEngineUnavailable(j))
                        => active_tasks'[j].status = "completed"]_vars
    /\ [](\A j \in Ids :
            (co[j].mode = "semi" /\ co[j].result.success /\ Status(j) \in TerminalStates)
                => WasParked(j))

\* C26 witness: a review-mode job whose run succeeded was parked and has
\* been cancelled from there
C26_Witness ==
    \E j \in Ids : /\ co[j].mode = "semi"
                   /\ co[j].result.success
                   /\ WasParked(j)
                   /\ Status(j) = "cancelled"

\* the Server header of the page names cloudflare (utils.py:190, 209)
ServerIsCloudflare ==
    page.headers["Server"] # None /\ LowerText(page.headers["Server"]) = "cloudflare"

\* the page text carries one of the challenge phrases (utils.py:193-205)
HasChallengePhrase == \E flag \in cloudflare_flags : Occurs(flag, page.html_content)

\* C27: every response with status 403 or 503 whose Server header names
\* cloudflare or whose text carries a challenge phrase is classified as a
\* Cloudflare block; in particular one with the header and no phrase is not
\* classified as a generic HTTP error.
C27_CloudflareByHeaderOrPhrase ==
    (verdict # NoVerdict /\ page.status_code \in {403, 503}
        /\ (ServerIsCloudflare \/ HasChallengePhrase))
            => verdict = Verdict(FALSE, <<"Cloudflare protection detected">>)

\* C28: the protection check is evaluated before the engine's run starts and
\* after it returns: when a job's run is started, and when a job is moved
\* to completed, check_page_accessibility has been called for it.
C28_CheckedBeforeAndAfterRun ==
    [][\A j \in Ids :
          /\ (~RunInFlight(j) /\ RunInFlight(j)') => co[j].checked
          /\ (Status(j) # "completed" /\ active_tasks'[j].status = "completed")
                => co'[j].checked]_vars

\* the browser process of job j is there (agent.py:494, not terminated)
BrowserLive(j) == co[j].proc = "live"

\* C29: any two jobs whose browser processes are both live were given
\* different debugging ports and different profile directories.
C29_DistinctPortsAndProfiles ==
    \A i \in Ids, j \in Ids :
        (i # j /\ BrowserLive(i) /\ BrowserLive(j))
            => /\ co[i].debug_port # co[j].debug_port
               /\ UserDataDir(co[i].debug_port) # UserDataDir(co[j].debug_port)

\* C30: the state stored for a job is always one of the lifecycle states
\* queued, starting, initializing, launching_browser, running, blocked,
\* reviewing, awaiting_confirmation, submitting, completed, cancelled, error.
C30_StateIsLifecycleState ==
    \A j \in Ids :
        Status(j) \in {"queued", "starting", "initializing", "launching_browser", "running",
                       "blocked", "reviewing", "awaiting_confirmation", "submitting",
                       "completed", "cancelled", "error"}

\* C31: a job holds a decision value only while its state is
\* awaiting_confirmation: user_action is absent before the job parks and
\* is cleared once the decision has been consumed.
C31_DecisionOnlyWhileAwaiting ==
    \A j \in Ids :
        active_tasks[j].user_action # None => Status(j) = "awaiting_confirmation"

\* C32: a job's account_credentials changes at most once: it goes from
\* absent to a value, and no later step writes it again or clears it.
C32_CredentialsSetOnce ==
    [][\A j \in Ids :
          active_tasks'[j].account_credentials # active_tasks[j].account_credentials
              => /\ active_tasks[j].account_credentials = None
                 /\ active_tasks'[j].account_credentials # None]_vars

\* C32 witness: a job that stored credentials has been decided, written to
\* several more times and closed, and still holds them
C32_Witness ==
    \E j \in Ids : /\ active_tasks[j].account_credentials = Creds
                   /\ Status(j) = "cancelled"
                   /\ co[j].pc = "done"

\* C33: in the attach loop every poll answered with a status other than 200
\* records a failure reason that is not the connection-refused reason, and
\* the error reported when the attach fails carries a reason (it is never
\* absent).
C33_NonOkPollRecordsReason ==
    [][\A j \in Ids :
          /\ \A outcome \in {"status_502", "status_other"} :
                AttachPollRetry(j, outcome)
                    => co'[j].last_error \notin {None, "Connection refused"}
          /\ \A outcome \in PollOutcomes :
                AttachPollGivesUp(j, outcome)
                    => /\ LastMessage(j)'[2] # None
                       /\ outcome \in {"status_502", "status_other"}
                             => LastMessage(j)'[2] # "Connection refused"]_vars

C35_DecisionUnparksJob ==
    /\ \A j \in TaskIds :
          /\ (j \in Ids /\ Status(j) = "awaiting_confirmation" /\ active_tasks[j].user_action = "submit")
                ~> (j \in Ids /\ Status(j) = "completed")
          /\ (j \in Ids /\ Status(j) = "awaiting_confirmation" /\ active_tasks[j].user_action = "cancel")
                ~> (j \in Ids /\ Status(j) = "cancelled")
    /\ [][\A j \in Ids :
            /\ (Status(j) = "awaiting_confirmation" /\ decisions[j].count = 0)
                  => active_tasks'[j].status = "awaiting_confirmation"
            /\ (Status(j) # "awaiting_confirmation" /\ active_tasks'[j].status = "awaiting_confirmation")
                  => "Application filled. Awaiting teacher review..." \notin Messages(j)]_vars

\* C36: the decision acted upon is the one that was acknowledged: for a job
\* with an accepted cancel the submission run is never started, and a job
\* with an accepted submit is never cancelled.
C36_AcknowledgedDecisionIsActedUpon ==
    \A j \in Ids :
        /\ "cancel" \in decisions[j].accepted => ~submitStarted[j]
        /\ "submit" \in decisions[j].accepted => Status(j) # "cancelled"

\* C37: after an accepted submit a job is completed only if the submission
\* finished without failure: a job whose submission failed is not completed,
\* and when its lifecycle has ended its state is error.
C37_FailedSubmitEndsInError ==
    \A j \in Ids :
        "Submit failed" \in Messages(j)
            => /\ Status(j) # "completed"
               /\ co[j].pc = "done" => Status(j) = "error"

\* C38: a /run-task job is completed only if the post-run protection check
\* ran and found the page accessible: check_page_accessibility was called
\* for the job and did not report the page blocked.
C38_CompletedOnlyAfterCleanCheck ==
    \A j \in Ids :
        (co[j].kind = "task" /\ Status(j) = "completed")
            => /\ co[j].checked
               /\ "Page blocked" \notin Messages(j)

\* C39: the attach loop makes at most 20 polls, and the attach is given up
\* only by the 20th poll: a 200 response without a control URL does not
\* end the loop while attempts remain.
C39_GivesUpOnlyAfterAllPolls ==
    [][\A j \in Ids :
          /\ co'[j].attempt <= AttachAttempts
          /\ (co[j].pc = "t_attach" /\ co'[j].pc = "done")
                => co[j].attempt + 1 = AttachAttempts]_vars

\* C40: when every call into the engine and the browser returns and the
\* event loop is fair, every created job eventually is completed,
\* cancelled, error or blocked, or is parked in awaiting_confirmation: no
\* job stays for ever in a state on the way there.
C40_EveryJobSettles ==
    \A j \in TaskIds :
        (j \in Ids)
            ~> (j \in Ids /\ Status(j) \in {"completed", "cancelled", "error", "blocked",
                                            "awaiting_confirmation"})

\* C40 witness: a job has gone all the way: a /run-task job has run the
\* engine, was blocked and stopped its browser, or an /api/apply job was
\* parked, submitted and completed
C40_Witness ==
    \E j \in Ids :
        /\ co[j].pc = "done"
        /\ \/ co[j].kind = "task" /\ Status(j) = "blocked" /\ co[j].session = "stopped"
           \/ co[j].kind = "apply" /\ Status(j) = "completed" /\ submitStarted[j]

Next ==
    \/ \E id \in TaskIds : Room(MaxJobs) /\ run_task(id)
    \/ \E id \in 1..(MaxJobs + 1), mode \in RequestModes, k \in BOOLEAN, p \in BOOLEAN :
          /\ Accepts(mode, k) => Room(MaxJobs)
          /\ start_application(id, mode, k, p)
    \/ \E id \in RequestIds : get_status(id)
    \/ \E id \in RequestIds, a \in ConfirmActions : confirm_submission(id, a)
    \/ ReturnResponse
    \/ \E j \in TaskIds : run_application_automation(j)
    \/ \E j \in TaskIds : run_automation_task(j)

Spec == Init /\ [][Next]_vars

\* the event loop runs every callback that is ready: a handler that has its
\* response returns it, and a lifecycle coroutine that can take a step again
\* and again takes it (asyncio.create_task, main.py:155-162 and 196-202)
Fairness ==
    /\ WF_vars(ReturnResponse)
    /\ \A j \in TaskIds : /\ SF_vars(run_application_automation(j))
                          /\ SF_vars(run_automation_task(j))

SpecFair == Init /\ [][Next]_vars /\ Fairness

\* the service serving /run-task jobs only
NextTask ==
    \/ \E id \in TaskIds : Room(MaxJobs) /\ run_task(id)
    \/ \E id \in RequestIds : get_status(id)
    \/ \E id \in RequestIds, a \in ConfirmActions : confirm_submission(id, a)
    \/ ReturnResponse
    \/ \E j \in TaskIds : run_automation_task(j)

SpecTask == Init /\ [][NextTask]_vars

\* the service serving /api/apply jobs only
NextApply ==
    \/ \E id \in 1..(MaxJobs + 1), mode \in RequestModes, k \in BOOLEAN, p \in BOOLEAN :
          /\ Accepts(mode, k) => Room(MaxJobs)
          /\ start_application(id, mode, k, p)
    \/ \E id \in RequestIds : get_status(id)
    \/ \E id \in RequestIds, a \in ConfirmActions : confirm_submission(id, a)
    \/ ReturnResponse
    \/ \E j \in TaskIds : run_application_automation(j)

SpecApply == Init /\ [][NextApply]_vars

\* the event loop runs every callback that is ready (asyncio's ready queue
\* is first in, first out): a handler that has its response returns it, and
\* a coroutine that can take a step again and again takes it
ApplyFairness ==
    /\ WF_vars(ReturnResponse)
    /\ \A j \in TaskIds : SF_vars(run_application_automation(j))

SpecApplyFair == Init /\ [][NextApply]_vars /\ ApplyFairness

(***************************************************************************)
(* Concurrent jobs on their way into and out of the two loops that wait:    *)
(* the attach loop of run_automation_task (agent.py:513-532) with every     *)
(* poll refused until one is answered, and the confirmation wait of         *)
(* run_application_automation (main.py:315-316).                            *)
(***************************************************************************)
\* number of jobs explored by SpecWaiting
WaitingJobs == 2

WaitingLifecycle(j) ==
    \/ TaskStarting(j)
    \/ TaskEngineUnavailable(j)
    \/ TaskNoApiKey(j)
    \/ TaskInitLLM(j)
    \/ TaskChromeFound(j)
    \/ TaskLaunch(j)
    \/ \E outcome \in {"refused"} : AttachPollRetry(j, outcome)
    \/ AttachPollSucceeds(j)
    \/ \E outcome \in {"refused"} : AttachPollGivesUp(j, outcome)
    \/ ApplyStarting(j)
    \/ ApplyCreateAgent(j)
    \/ ApplyEngineUnavailable(j)
    \/ ApplyInitLLM(j)
    \/ ApplyCreateBrowser(j)
    \/ ApplyRunEngine(j)
    \/ ApplyRunReturns(j)
    \/ ApplyParse(j)
    \/ ApplyResult(j)
    \/ ApplyWaitCancel(j)
    \/ ApplyClose(j)

NextWaiting ==
    \/ \E id \in 1..WaitingJobs : Room(WaitingJobs) /\ run_task(id)
    \/ \E id \in 1..WaitingJobs : Room(WaitingJobs) /\ start_application(id, "semi", TRUE, FALSE)
    \/ \E id \in 1..WaitingJobs : get_status(id)
    \/ \E id \in 1..WaitingJobs : confirm_submission(id, "cancel")
    \/ ReturnResponse
    \/ \E j \in 1..WaitingJobs : WaitingLifecycle(j)

SpecWaiting == Init /\ [][NextWaiting]_vars
====
